---------------------------- MODULE Spec2Model ----------------------------
(***************************************************************************)
(* Model of the weather MCP server (src/src/index.ts, src/src/types.ts).   *)
(*                                                                         *)
(* The server is a stateless request handler.  A request is followed from  *)
(* its arrival to its outcome, then the next one; the two handlers that    *)
(* call the upstream API are suspended at their `await` and resumed by     *)
(* the reply.                                                              *)
(*                                                                         *)
(* JavaScript values are tagged records, so that typeof, `in`, `||`, `??`  *)
(* and `?.` are computed as the language computes them.  Numbers are       *)
(* fixed-point: the integer n stands for the number n / Den, which lets    *)
(* fractional `days` be supplied.  Strings that the code splits are        *)
(* sequences of tokens, the separator being a token of its own.            *)
(***************************************************************************)
EXTENDS Integers, Sequences

-----------------------------------------------------------------------------
(* Bounds of the model *)

Den == 2          \* resolution of numbers: n stands for n / Den
NegDays == 1      \* the smallest `days` supplied is -NegDays
OverDays == 1     \* the largest `days` supplied is MaxDays + OverDays
MaxList == 17     \* the longest forecast listing the upstream returns

(* Constants of the program *)

DefaultDays == 3      \* `|| 3`
MaxDays == 5          \* `Math.min(..., 5)`
SamplesPerDay == 8    \* `days * 8`, `i += 8`
MinDaysSchema == 1    \* inputSchema.properties.days.minimum

Num(x) == x * Den     \* the fixed-point form of the whole number x

-----------------------------------------------------------------------------
(* JavaScript values *)

Undefined == [t |-> "undefined", s |-> "", n |-> 0]
Null      == [t |-> "null", s |-> "", n |-> 0]
Str(s)    == [t |-> "string", s |-> s, n |-> 0]
Number(n) == [t |-> "number", s |-> "", n |-> n]
Bool      == [t |-> "boolean", s |-> "", n |-> 0]

\* typeof: null and arrays are "object"
TypeOf(x) == IF x.t \in {"null", "array"} THEN "object" ELSE x.t

\* a ?? b
Coalesce(a, b) == IF a.t \in {"undefined", "null"} THEN b ELSE a

\* the value of request.params.arguments: a primitive, an array, or an
\* object with its `city` and `days` members (Undefined when the key is
\* absent: a JSON-decoded object holds no undefined-valued key)
Args(t, city, dys) == [t |-> t, city |-> city, days |-> dys]
NoArgs == Args("undefined", Undefined, Undefined)

\* key in args, for an object decoded from JSON
HasKey(member) == member.t # "undefined"

-----------------------------------------------------------------------------
(* Requests the host sends *)

Request(method, uri, name, arguments) ==
    [method |-> method, uri |-> uri, name |-> name, arguments |-> arguments]

NoRequest == Request("", <<>>, "", NoArgs)

-----------------------------------------------------------------------------
(* The state of the server: the request in flight *)

VARIABLES
    pc,         \* "idle", or the await the running handler is suspended at
    request,    \* the request being (or last) handled
    days,       \* the handler's local `days` (index.ts:201), fixed-point
    httpCalls,  \* the upstream calls issued while handling `request`
    reply,      \* what the upstream call settled with
    outcome     \* how the handler ended: a returned value or a thrown error

vars == <<pc, request, days, httpCalls, reply, outcome>>

-----------------------------------------------------------------------------
(* types.ts *)

\* the validator without its check of `days`
isValidForecastArgs_NoDaysCheck(args) ==
    /\ TypeOf(args) = "object"
    /\ args.t # "null"
    /\ HasKey(args.city)
    /\ TypeOf(args.city) = "string"

isValidForecastArgs(args) ==
    /\ TypeOf(args) = "object"
    /\ args.t # "null"
    /\ HasKey(args.city)
    /\ TypeOf(args.city) = "string"
    /\ (args.days.t = "undefined" \/ TypeOf(args.days) = "number")


-----------------------------------------------------------------------------
(* Strings the code splits *)

\* s.split(sep): the pieces of s between the occurrences of sep
RECURSIVE Split(_, _)
Split(s, sep) ==
    IF \E i \in 1..Len(s) : s[i] = sep
    THEN LET i == CHOOSE j \in 1..Len(s) :
                    /\ s[j] = sep
                    /\ \A k \in 1..(j - 1) : s[k] # sep
         IN  <<SubSeq(s, 1, i - 1)>> \o Split(SubSeq(s, i + 1, Len(s)), sep)
    ELSE <<s>>

\* new Date().toISOString().split('T')[0]
TodayOf(iso) == Split(iso, "T")[1]

-----------------------------------------------------------------------------
(* Shapes of the upstream's data (types.ts, OpenWeatherResponse) *)

NoDtTxt == [t |-> "undefined", s |-> <<>>]
DtTxt(s) == [t |-> "string", s |-> s]

Sample(tp, wx, dt) ==
    [main |-> [temp |-> tp, humidity |-> 50],
     weather |-> wx,
     wind |-> [speed |-> 4],
     dt_txt |-> dt]

Descriptions == <<"clear sky", "light rain", "few clouds">>
DayTokens == <<"2024-01-01", "2024-01-02", "2024-01-03", "2024-01-04">>
HourTokens == <<"00:00:00", "03:00:00", "06:00:00", "09:00:00",
                "12:00:00", "15:00:00", "18:00:00", "21:00:00">>

\* the i-th sample (from 1) of a well-formed listing starting at temp0
Regular(i, temp0) ==
    Sample(temp0 + i,
           <<[description |-> Descriptions[(i % Len(Descriptions)) + 1]]>>,
           DtTxt(<<DayTokens[(((i - 1) \div SamplesPerDay) % Len(DayTokens)) + 1],
                   " ",
                   HourTokens[((i - 1) % Len(HourTokens)) + 1]>>))

\* samples that are unusual in one of the fields the code reads
OddSamples ==
    { Sample(-7, <<>>, DtTxt(<<"2024-02-01", " ", "00:00:00">>)),
      Sample(-7, <<[description |-> "mist"], [description |-> "snow"]>>, NoDtTxt),
      Sample(-7, <<[description |-> "mist"]>>, DtTxt(<<>>)),
      Sample(-7, <<[description |-> "mist"]>>, DtTxt(<<"2024-02-01T00:00:00">>)),
      Sample(-7, <<[description |-> "mist"]>>, DtTxt(<<" ", "2024-02-01">>)),
      Sample(-7, <<[description |-> "mist"]>>,
             DtTxt(<<"2024-02-01", " ", "00:00:00", " ", "UTC">>)) }

\* a listing of n samples, well-formed but for the odd sample at index `at`
\* (at = 0: none)
Listing(n, temp0, at, odd) ==
    [i \in 1..n |-> IF i = at THEN odd ELSE Regular(i, temp0)]

CurrentResponses ==
    { Regular(1, 10), Regular(2, 20) } \cup OddSamples

\* capture times, as toISOString() prints them
Nows == { <<"2024-03-05", "T", "09:00:00.000Z">>,
          <<"2024-03-06", "T", "23:59:59.999Z">> }

\* what axios rejects with: no response at all (a transport error), or the
\* response of a provider-reported error, whose body `data` is anything
AxiosError(message, hasResponse, dataType, dataMessage) ==
    [message |-> message, hasResponse |-> hasResponse,
     data |-> [t |-> dataType, message |-> dataMessage]]

AxiosErrors ==
    { AxiosError("Network Error", FALSE, "undefined", Undefined) } \cup
    { AxiosError("Request failed with status code 404", TRUE, "object", m) :
        m \in {Str("city not found"), Undefined, Null} } \cup
    { AxiosError("Request failed with status code 502", TRUE, "string", Undefined),
      AxiosError("Request failed with status code 500", TRUE, "null", Undefined) }

NoError == AxiosError("", FALSE, "undefined", Undefined)

NoReply == [data |-> Regular(1, 0), kind |-> "none", list |-> <<>>,
            error |-> NoError, now |-> <<>>]
DataReply(data, now) == [NoReply EXCEPT !.kind = "data", !.data = data, !.now = now]
ListReply(list, now) == [NoReply EXCEPT !.kind = "list", !.list = list, !.now = now]
ErrorReply(error) == [NoReply EXCEPT !.kind = "error", !.error = error]

-----------------------------------------------------------------------------
(* How a handler ends *)

NoOutcome ==
    [kind |-> "none", error |-> "", code |-> "", text |-> <<>>, isError |-> FALSE,
     forecasts |-> <<>>, contents |-> <<>>, catalog |-> <<>>]

\* throw new McpError(code, text)
McpError(code, text) ==
    [NoOutcome EXCEPT !.kind = "throw", !.error = "McpError", !.code = code,
                      !.text = text]

\* a TypeError raised by reading a property of undefined or null
TypeError == [NoOutcome EXCEPT !.kind = "throw", !.error = "TypeError"]

\* return { content: [{ type: "text", text: JSON.stringify(forecasts) }] }
\* (the text is kept as the document it serialises)
ForecastResult(forecasts) ==
    [NoOutcome EXCEPT !.kind = "return", !.forecasts = forecasts]

\* return { content: [{ type: "text", text }], isError: true }
ErrorResult(text) ==
    [NoOutcome EXCEPT !.kind = "return", !.text = text, !.isError = TRUE]

\* return { contents: [{ uri, mimeType, text: JSON.stringify(weatherData) }] }
ContentsResult(weatherData) ==
    [NoOutcome EXCEPT !.kind = "return", !.contents = <<weatherData>>]

CatalogResult(entries) ==
    [NoOutcome EXCEPT !.kind = "return", !.catalog = entries]

-----------------------------------------------------------------------------
(* index.ts: configuration *)

DEFAULT_CITY == "San Francisco"
CURRENT == "weather"
FORECAST == "forecast"

\* `weather://${city}/current`
ResourceUri(city) == <<"weather://", city, "/current">>

\* an upstream call: axiosInstance.get(endpoint, { params: { q, cnt } })
HttpCall(endpoint, q, cnt) == [endpoint |-> endpoint, q |-> q, cnt |-> cnt]

-----------------------------------------------------------------------------
(* index.ts: the catch blocks *)

\* error.response?.data.message: `?.` guards `response` alone, so a body that
\* is null makes the read of `.message` throw
ResponseDataMessage(error) ==
    IF ~error.hasResponse THEN [threw |-> FALSE, v |-> Undefined]
    ELSE IF error.data.t \in {"null", "undefined"} THEN [threw |-> TRUE, v |-> Undefined]
    ELSE IF error.data.t = "object" THEN [threw |-> FALSE, v |-> error.data.message]
    ELSE [threw |-> FALSE, v |-> Undefined]

\* `Weather API error: ${error.response?.data.message ?? error.message}`
ApiErrorText(error) ==
    <<"Weather API error: ", Coalesce(ResponseDataMessage(error).v, Str(error.message)).s>>

\* catch (error) of the resource handler, for an error axios rejected with
ResourceCatch(error) ==
    IF ResponseDataMessage(error).threw THEN TypeError
    ELSE McpError("InternalError", ApiErrorText(error))

\* catch (error) of the tool handler, for an error axios rejected with
ToolCatch(error) ==
    IF ResponseDataMessage(error).threw THEN TypeError
    ELSE ErrorResult(ApiErrorText(error))

-----------------------------------------------------------------------------
(* index.ts: reading a sample *)

\* x.weather[0]?.description ?? "": an empty list is defaulted
ConditionsOf_Defaulted(x) ==
    IF Len(x.weather) = 0 THEN [threw |-> FALSE, v |-> ""]
    ELSE [threw |-> FALSE, v |-> x.weather[1].description]

\* x.weather[0].description: throws when the list is empty
ConditionsOf(x) ==
    IF Len(x.weather) = 0 THEN [threw |-> TRUE, v |-> ""]
    ELSE [threw |-> FALSE, v |-> x.weather[1].description]

\* dayData.dt_txt?.split(' ')[0] ?? new Date().toISOString().split('T')[0]
DateOf(dayData, now) ==
    IF dayData.dt_txt.t = "undefined" THEN TodayOf(now)
    ELSE Split(dayData.dt_txt.s, " ")[1]

ForecastDay(dayData, now) ==
    [date |-> DateOf(dayData, now),
     temperature |-> dayData.main.temp,
     conditions |-> ConditionsOf(dayData).v]

\* i += 7: a step one short
NextIndex_Seven(i) == i + SamplesPerDay - 1

\* the index (from 0) the loop moves to after i
NextIndex(i) == i + SamplesPerDay

\* for (let i = 0; i < list.length; i += 8) forecasts.push(...), from index i
\* on; `threw` when the body raised a TypeError
RECURSIVE ForecastLoop(_, _, _, _)
ForecastLoop(list, i, now, forecasts) ==
    IF ~(i < Len(list)) THEN [forecasts |-> forecasts, threw |-> FALSE]
    ELSE IF ConditionsOf(list[i + 1]).threw THEN [forecasts |-> forecasts, threw |-> TRUE]
    ELSE ForecastLoop(list, NextIndex(i), now,
                      Append(forecasts, ForecastDay(list[i + 1], now)))

\* the try block of the tool handler after the await, and its catch for the
\* errors the block itself raises (not axios errors: rethrown)
ToolTry(list, now) ==
    LET r == ForecastLoop(list, 0, now, <<>>)
    IN  IF r.threw THEN TypeError ELSE ForecastResult(r.forecasts)

WeatherData(data, now) ==
    [humidity |-> data.main.humidity,
     temperature |-> data.main.temp,
     conditions |-> ConditionsOf(data).v,
     wind_speed |-> data.wind.speed,
     timestamp |-> now]

\* the try block of the resource handler after the await, likewise
ResourceTry(data, now) ==
    IF ConditionsOf(data).threw THEN TypeError
    ELSE ContentsResult(WeatherData(data, now))

-----------------------------------------------------------------------------
(* index.ts: the checks before the upstream call *)

\* Math.min(a, b)
MathMin(a, b) == IF a < b THEN a ELSE b

\* a || b for a number or undefined a: 0 is falsy
OrElse(a, b) == IF a.t = "undefined" \/ (a.t = "number" /\ a.n = 0) THEN b ELSE a.n

\* Math.min(request.params.arguments.days ?? 3, 5): 0 is kept
EffectiveDays_Nullish(daysArg) ==
    MathMin(Coalesce(daysArg, Number(Num(DefaultDays))).n, Num(MaxDays))

\* const days = Math.min(request.params.arguments.days || 3, 5)
EffectiveDays(daysArg) == MathMin(OrElse(daysArg, Num(DefaultDays)), Num(MaxDays))

\* cnt: days * 8
Cnt(d) == d * SamplesPerDay

\* a handler that accepts the current-conditions URI of any city
ResourceDispatch_AnyCity(uri) ==
    IF Len(uri) = 3 /\ uri[1] = "weather://" /\ uri[3] = "/current"
    THEN "call" ELSE "unknown"

\* the resource handler up to its await: "unknown" or "call"
ResourceDispatch(uri) ==
    IF uri # ResourceUri(DEFAULT_CITY) THEN "unknown" ELSE "call"

\* the two checks in the other order
ToolDispatch_ValidateFirst(name, arguments) ==
    IF ~isValidForecastArgs(arguments) THEN "InvalidParams"
    ELSE IF name # "get_forecast" THEN "MethodNotFound"
    ELSE "call"

\* the tool handler up to its await: which fault it throws, or "call"
ToolDispatch(name, arguments) ==
    IF name # "get_forecast" THEN "MethodNotFound"
    ELSE IF ~isValidForecastArgs(arguments) THEN "InvalidParams"
    ELSE "call"

-----------------------------------------------------------------------------
(* What the host asks for *)

Uris ==
    { ResourceUri(DEFAULT_CITY), ResourceUri("Nowhere"), ResourceUri("Paris"),
      <<"weather://", DEFAULT_CITY>>, <<"file://", DEFAULT_CITY, "/current">> }

ToolNames == { "get_forecast", "get_weather", "GET_FORECAST" }

DaysNumbers == { Number(n) : n \in (0 - Num(NegDays))..Num(MaxDays + OverDays) }

ArgumentValues ==
    { NoArgs,
      Args("null", Undefined, Undefined),
      Args("string", Undefined, Undefined),
      Args("number", Undefined, Undefined),
      Args("array", Undefined, Undefined) } \cup
    { Args("object", city, dys) :
        city \in { Undefined, Null, Number(Num(1)), Str("Paris") },
        dys \in { Undefined, Null, Bool, Str("3") } \cup DaysNumbers } \cup
    { Args("object", Str(""), dys) :
        dys \in { Undefined, Str("3"), Number(Num(2)) } }

-----------------------------------------------------------------------------
(* The handlers *)

Init ==
    /\ pc = "idle"
    /\ request = NoRequest
    /\ days = 0
    /\ httpCalls = <<>>
    /\ reply = NoReply
    /\ outcome = NoOutcome

\* no request is being handled and none has just ended
Ready == pc = "idle" /\ outcome.kind = "none"

\* a handler returns or throws without awaiting anything
Ends(req, out) ==
    /\ request' = req
    /\ outcome' = out
    /\ pc' = "idle"
    /\ days' = 0
    /\ httpCalls' = <<>>
    /\ reply' = NoReply

\* a handler issues `call` and is suspended at its await
Awaits(req, at, d, call) ==
    /\ request' = req
    /\ outcome' = NoOutcome
    /\ pc' = at
    /\ days' = d
    /\ httpCalls' = <<call>>
    /\ reply' = NoReply

\* the awaited call has settled with `r` and the handler ends with `out`
Resumes(r, out) ==
    /\ reply' = r
    /\ outcome' = out
    /\ pc' = "idle"
    /\ UNCHANGED <<request, days, httpCalls>>

ListResources ==
    /\ Ready
    /\ Ends(Request("resources/list", <<>>, "", NoArgs),
            CatalogResult(<<ResourceUri(DEFAULT_CITY)>>))

ListTools ==
    /\ Ready
    /\ Ends(Request("tools/list", <<>>, "", NoArgs),
            CatalogResult(<<<<"get_forecast">>>>))

ReadResource ==
    /\ Ready
    /\ \E uri \in Uris :
        LET req == Request("resources/read", uri, "", NoArgs)
            city == DEFAULT_CITY
        IN  IF ResourceDispatch(uri) = "unknown"
            THEN Ends(req, McpError("InvalidRequest", <<"Unknown resource: ">> \o uri))
            ELSE Awaits(req, "awaitCurrent", 0, HttpCall(CURRENT, city, <<>>))

ReadResourceFulfilled ==
    /\ pc = "awaitCurrent"
    /\ \E data \in CurrentResponses, now \in Nows :
        Resumes(DataReply(data, now), ResourceTry(data, now))

ReadResourceRejected ==
    /\ pc = "awaitCurrent"
    /\ \E error \in AxiosErrors :
        Resumes(ErrorReply(error), ResourceCatch(error))

CallTool ==
    /\ Ready
    /\ \E name \in ToolNames, arguments \in ArgumentValues :
        LET req == Request("tools/call", <<>>, name, arguments)
            verdict == ToolDispatch(name, arguments)
            city == arguments.city.s
            d == EffectiveDays(arguments.days)
        IN  CASE verdict = "MethodNotFound" ->
                    Ends(req, McpError("MethodNotFound", <<"Unknown tool: ", name>>))
              [] verdict = "InvalidParams" ->
                    Ends(req, McpError("InvalidParams", <<"Invalid forecast arguments">>))
              [] OTHER ->
                    Awaits(req, "awaitForecast", d, HttpCall(FORECAST, city, <<Cnt(d)>>))

CallToolFulfilled ==
    /\ pc = "awaitForecast"
    /\ \E n \in 0..MaxList, odd \in OddSamples, now \in Nows :
        \E at \in 0..n :
            \E list \in { Listing(n, 10, at, odd) } :
                Resumes(ListReply(list, now), ToolTry(list, now))

CallToolRejected ==
    /\ pc = "awaitForecast"
    /\ \E error \in AxiosErrors :
        Resumes(ErrorReply(error), ToolCatch(error))

\* the promise the handler returned has settled: the server answers the host
\* and keeps nothing of the request
Settled ==
    /\ pc = "idle"
    /\ outcome.kind # "none"
    /\ pc' = "idle"
    /\ request' = NoRequest
    /\ days' = 0
    /\ httpCalls' = <<>>
    /\ reply' = NoReply
    /\ outcome' = NoOutcome

Next ==
    \/ ListResources
    \/ ListTools
    \/ ReadResource
    \/ ReadResourceFulfilled
    \/ ReadResourceRejected
    \/ CallTool
    \/ CallToolFulfilled
    \/ CallToolRejected
    \/ Settled

Spec == Init /\ [][Next]_vars

-----------------------------------------------------------------------------
(* Properties *)

IsToolCall == request.method = "tools/call"
IsRead == request.method = "resources/read"

\* the shape of arguments the validator is to accept, read off the tags
ForecastArgsShape(args) ==
    /\ args.t = "object"
    /\ args.city.t = "string"
    /\ args.days.t \in {"undefined", "number"}

\* C1: a get_forecast call whose arguments are not a non-null object with a
\* string `city` and an absent or number `days` ends with an InvalidParams
\* fault and issues no upstream call; every call whose arguments have that
\* shape issues the upstream forecast call for its city.
C1_Validation ==
    (IsToolCall /\ request.name = "get_forecast") =>
        IF ForecastArgsShape(request.arguments)
        THEN /\ Len(httpCalls) = 1
             /\ httpCalls[1].endpoint = FORECAST
             /\ httpCalls[1].q = request.arguments.city.s
             /\ outcome.code # "InvalidParams"
        ELSE /\ pc = "idle"
             /\ outcome = McpError("InvalidParams", <<"Invalid forecast arguments">>)
             /\ httpCalls = <<>>

C1_Witness ==
    /\ IsToolCall /\ request.name = "get_forecast"
    /\ request.arguments.city = Str("Paris")
    /\ request.arguments.days = Null
    /\ outcome.code = "InvalidParams"
    /\ httpCalls = <<>>

\* C2: for every accepted get_forecast call the day count used lies in 1..5
\* and the sample count sent upstream is that day count times 8.
C2_DaysInRange ==
    (IsToolCall /\ pc = "awaitForecast") =>
        /\ Num(MinDaysSchema) <= days
        /\ days <= Num(MaxDays)
        /\ httpCalls[1].cnt = <<days * 8>>

\* C3 as stated: the day count used is min(days, 5) for every number-typed
\* `days`, and 3 when `days` is absent.
C3_MinOfDaysAndFive ==
    (IsToolCall /\ pc = "awaitForecast") =>
        LET a == request.arguments.days
            used == IF a.t = "undefined" THEN Num(3)
                    ELSE IF a.n <= Num(5) THEN a.n ELSE Num(5)
        IN  days = used /\ httpCalls[1].cnt = <<used * 8>>

\* C3, amended: the day count used is min(days, 5) for every number-typed
\* `days` other than 0, and 3 when `days` is absent or is 0.
C3_EffectiveDays ==
    (IsToolCall /\ pc = "awaitForecast") =>
        LET a == request.arguments.days
            used == IF a.t = "undefined" \/ a.n = 0 THEN Num(3)
                    ELSE IF a.n <= Num(5) THEN a.n ELSE Num(5)
        IN  days = used /\ httpCalls[1].cnt = <<used * 8>>

C3_Witness ==
    /\ IsToolCall /\ pc = "awaitForecast"
    /\ request.arguments.days = Number(0)
    /\ days = Num(3)
    /\ httpCalls[1].cnt = <<Num(24)>>

\* the least whole number that is at least n / 8
CeilDiv8(n) == (n + 7) \div 8

\* C4: with a day count `days` in 1..5 and a listing of n samples, the
\* forecast returned never has more than `days` entries: exactly `days` of
\* them when n >= days * 8, and ceil(n / 8) when n < days * 8.
C4_Length ==
    (/\ IsToolCall /\ reply.kind = "list" /\ outcome.kind = "return"
     /\ days \in { Num(d) : d \in 1..5 }) =>
        LET n == Len(reply.list)
            len == Len(outcome.forecasts)
        IN  /\ Num(len) <= days
            /\ Num(n) >= days * 8 => Num(len) = days
            /\ Num(n) < days * 8 => len = CeilDiv8(n)

\* C5: a call of a tool other than get_forecast ends with a MethodNotFound
\* fault whatever its arguments, and issues no upstream call.
C5_UnknownTool ==
    (IsToolCall /\ request.name # "get_forecast") =>
        /\ pc = "idle"
        /\ outcome = McpError("MethodNotFound", <<"Unknown tool: ", request.name>>)
        /\ httpCalls = <<>>

C5_Witness ==
    /\ IsToolCall /\ request.name = "get_weather"
    /\ request.arguments.t = "null"
    /\ outcome.code = "MethodNotFound"
    /\ httpCalls = <<>>

\* C6: a read of a URI other than weather://San Francisco/current ends with
\* an unknown-resource fault and issues no upstream call; the upstream
\* current-conditions call is issued for exactly that URI, and for the
\* default city.
C6_UnknownResource ==
    /\ IsRead =>
        IF request.uri = <<"weather://", "San Francisco", "/current">>
        THEN httpCalls = <<HttpCall("weather", "San Francisco", <<>>)>>
        ELSE /\ pc = "idle"
             /\ outcome = McpError("InvalidRequest",
                                   <<"Unknown resource: ">> \o request.uri)
             /\ httpCalls = <<>>
    /\ \A i \in 1..Len(httpCalls) :
            httpCalls[i].endpoint = "weather" =>
                /\ IsRead
                /\ request.uri = <<"weather://", "San Francisco", "/current">>
                /\ httpCalls[i].q = "San Francisco"

C6_Witness ==
    /\ IsRead
    /\ request.uri = <<"weather://", "Nowhere", "/current">>
    /\ outcome.kind = "throw"
    /\ httpCalls = <<>>

\* the provider's message, when the failure carried one
CarriesMessage(error) ==
    error.hasResponse /\ error.data.t = "object" /\ error.data.message.t = "string"

\* the message an upstream failure is to be reported with
ExpectedMessage(error) ==
    IF CarriesMessage(error) THEN error.data.message.s ELSE error.message

Contains(text, token) == \E i \in 1..Len(text) : text[i] = token

\* C7: an accepted get_forecast call whose upstream call fails raises no
\* fault: it returns a result flagged isError whose text contains the
\* provider's message when the failure carried one, and the transport error
\* message otherwise.
C7_ToolFailure ==
    (IsToolCall /\ reply.kind = "error") =>
        /\ outcome.kind = "return"
        /\ outcome.isError
        /\ Contains(outcome.text, ExpectedMessage(reply.error))

\* C8: a read of the default-city resource whose upstream call fails ends
\* with an InternalError fault carrying the provider's message when
\* available and the transport error message otherwise, never with a
\* returned payload.
C8_ReadFailure ==
    (IsRead /\ reply.kind = "error") =>
        /\ outcome.kind = "throw"
        /\ outcome.error = "McpError"
        /\ outcome.code = "InternalError"
        /\ Contains(outcome.text, ExpectedMessage(reply.error))
        /\ outcome.contents = <<>>
        /\ ~outcome.isError

\* d is the part of s before its first space (all of s when it has none)
IsDatePortion(d, s) ==
    /\ Len(d) <= Len(s)
    /\ \A i \in 1..Len(d) : d[i] = s[i] /\ d[i] # " "
    /\ Len(d) < Len(s) => s[Len(d) + 1] = " "

\* C9: the k-th entry (from 0) of the forecast returned is built from the
\* sample at index 8 * k of the listing: its temperature is that sample's
\* main.temp, its conditions that sample's first weather description, its
\* date the part of that sample's dt_txt before the first space when the
\* sample has a dt_txt, and the capture-time date otherwise.
C9_EntryFromEighthSample ==
    (IsToolCall /\ reply.kind = "list" /\ outcome.kind = "return") =>
        \A k \in 0..(Len(outcome.forecasts) - 1) :
            /\ 8 * k < Len(reply.list)
            /\ LET x == reply.list[8 * k + 1]
                   f == outcome.forecasts[k + 1]
               IN  /\ f.temperature = x.main.temp
                   /\ f.conditions = x.weather[1].description
                   /\ IF x.dt_txt.t = "string"
                      THEN IsDatePortion(f.date, x.dt_txt.s)
                      ELSE f.date = <<reply.now[1]>>

C9_Witness ==
    /\ IsToolCall /\ reply.kind = "list" /\ outcome.kind = "return"
    /\ Len(outcome.forecasts) = 3
    /\ reply.list[9].dt_txt.t = "undefined"
    /\ outcome.forecasts[2].date = <<reply.now[1]>>
    /\ outcome.forecasts[3].date = <<"2024-01-03">>

\* the listing has an empty weather list in a sample the loop selects
SelectedSampleWithoutWeather(list) ==
    \E i \in 0..(Len(list) - 1) : i % 8 = 0 /\ list[i + 1].weather = <<>>

\* C10: when a successful upstream response carries an empty weather list
\* (the current conditions of a read, or a sample the forecast loop
\* selects), the request ends with a thrown error that is no McpError: no
\* payload is returned, whole or partial, defaulted or flagged isError.
C10_ContractViolation ==
    (\/ IsRead /\ reply.kind = "data" /\ reply.data.weather = <<>>
     \/ IsToolCall /\ reply.kind = "list" /\ SelectedSampleWithoutWeather(reply.list)) =>
        /\ outcome.kind = "throw"
        /\ outcome.error = "TypeError"
        /\ outcome.code = ""
        /\ outcome.forecasts = <<>>
        /\ outcome.contents = <<>>
        /\ ~outcome.isError

C10_Witness ==
    /\ IsToolCall /\ reply.kind = "list"
    /\ Len(reply.list) >= 9
    /\ reply.list[1].weather # <<>>
    /\ reply.list[9].weather = <<>>
    /\ outcome.kind = "throw"
    /\ outcome.error = "TypeError"

=============================================================================
